---- MODULE Spec2Model ----
(***************************************************************************)
(* Model of hcipy/fourier/fourier_operations.py: FourierFilter and         *)
(* FourierShear.                                                           *)
(*                                                                         *)
(* Arrays are numpy arrays: a shape (a sequence of axis lengths) and the   *)
(* row-major sequence of their samples.  A sample is a Gaussian integer    *)
(* <<re, im>> over the array's common denominator den (a power of two), so *)
(* that the discrete Fourier transforms of length 1, 2 and 4, whose        *)
(* twiddle factors are 1, -1, i and -i, are computed exactly.              *)
(***************************************************************************)
EXTENDS Integers, Sequences, FiniteSets, TLC

\* Python's None, and an attribute not set yet
None == [none |-> TRUE]

IsNone(x) == "none" \in DOMAIN x

\* slice(None)
SliceAll == <<>>

\* ------------------------------------------------------------------------
\* Numbers
\* ------------------------------------------------------------------------

CZero == <<0, 0>>

CAdd(a, b) == <<a[1] + b[1], a[2] + b[2]>>

CMul(a, b) == <<a[1] * b[1] - a[2] * b[2], a[1] * b[2] + a[2] * b[1]>>

CConj(a) == <<a[1], -a[2]>>

CScale(a, n) == <<a[1] * n, a[2] * n>>

\* z * i^e
Rot(z, e) ==
    CASE e % 4 = 0 -> z
      [] e % 4 = 1 -> <<-z[2], z[1]>>
      [] e % 4 = 2 -> <<-z[1], -z[2]>>
      [] OTHER     -> <<z[2], -z[1]>>

\* numpy dtypes of the fields, and what a cast to them keeps of a sample
IsComplexDtype(dtype) == dtype \in {"complex64", "complex128"}

Cast(z, dtype) == IF IsComplexDtype(dtype) THEN z ELSE <<z[1], 0>>

\* dtype of the FFT of an array of the given dtype
ComplexOf(dtype) == IF dtype = "complex64" THEN "complex64" ELSE "complex128"

\* ------------------------------------------------------------------------
\* Shapes and indices
\* ------------------------------------------------------------------------

\* a function over 1..n as a tuple, built once instead of at every access
Tuple(f) == f \o <<>>

\* B(e), with e evaluated once
Let(e, B(_)) == CHOOSE r \in {B(v) : v \in {e}} : TRUE

RECURSIVE Prod(_)
Prod(s) == IF Len(s) = 0 THEN 1 ELSE Head(s) * Prod(Tail(s))

\* s[:n] and s[n:] of a tuple s, as Python slices them
Take(s, n) == SubSeq(s, 1, IF n < Len(s) THEN n ELSE Len(s))

\* s[:-n] and s[-n:], for n >= 1 (Python clips at the start of the tuple)
DropLast(s, n) == SubSeq(s, 1, IF n < Len(s) THEN Len(s) - n ELSE 0)

TakeLast(s, n) == SubSeq(s, (IF n < Len(s) THEN Len(s) - n ELSE 0) + 1, Len(s))

Stride(shape, a) == Prod(SubSeq(shape, a + 1, Len(shape)))

\* the multi-index (0-based, one entry per axis) of flat row-major index k
Unravel(k, shape) ==
    Tuple([a \in 1..Len(shape) |-> (k \div Stride(shape, a)) % shape[a]])

RECURSIVE RavelFrom(_, _, _)
RavelFrom(idx, shape, a) ==
    IF a > Len(shape) THEN 0
    ELSE idx[a] * Stride(shape, a) + RavelFrom(idx, shape, a + 1)

Ravel(idx, shape) == RavelFrom(idx, shape, 1)

RECURSIVE CSum(_, _)
CSum(terms, n) == IF n = 0 THEN CZero ELSE CAdd(terms[n], CSum(terms, n - 1))

\* ------------------------------------------------------------------------
\* Arrays
\* ------------------------------------------------------------------------

Arr(shape, den, data) == [shape |-> Tuple(shape), den |-> den, data |-> Tuple(data)]

Size(a) == Prod(a.shape)

AllEven(data) == \A k \in 1..Len(data) : data[k][1] % 2 = 0 /\ data[k][2] % 2 = 0

Halve(data) == Tuple([k \in 1..Len(data) |-> <<data[k][1] \div 2, data[k][2] \div 2>>])

\* the same values over the least denominator
RECURSIVE Normal(_)
Normal(a) ==
    IF a.den > 1 /\ AllEven(a.data)
    THEN Let(Arr(a.shape, a.den \div 2, Halve(a.data)), LAMBDA h : Normal(h))
    ELSE a

Zeros(shape) == Arr(shape, 1, [k \in 1..Prod(shape) |-> CZero])

Reshape(a, shape) == Arr(shape, a.den, a.data)

AstypeArr(a, dtype) == Arr(a.shape, a.den, [k \in 1..Len(a.data) |-> Cast(a.data[k], dtype)])

ConjArr(a) == Arr(a.shape, a.den, [k \in 1..Len(a.data) |-> CConj(a.data[k])])

\* numpy broadcasting of two shapes, aligned at their last axes
PadShape(s, m) == [a \in 1..m |-> IF a <= m - Len(s) THEN 1 ELSE s[a - (m - Len(s))]]

MaxLen2(s, t) == IF Len(s) > Len(t) THEN Len(s) ELSE Len(t)

CanBroadcast(s, t) ==
    LET m  == MaxLen2(s, t)
        ps == PadShape(s, m)
        pt == PadShape(t, m)
    IN  \A a \in 1..m : ps[a] = pt[a] \/ ps[a] = 1 \/ pt[a] = 1

BroadcastShape(s, t) ==
    LET m  == MaxLen2(s, t)
        ps == PadShape(s, m)
        pt == PadShape(t, m)
    IN  [a \in 1..m |-> IF ps[a] = 1 THEN pt[a] ELSE ps[a]]

\* the flat index in an array of shape s of entry u of the broadcast result
BroadcastIndex(u, s) ==
    LET off == Len(u) - Len(s)
    IN  Ravel([a \in 1..Len(s) |-> IF s[a] = 1 THEN 0 ELSE u[a + off]], s)

\* a * b of two arrays whose shapes broadcast
MulArr(a, b) ==
    Let(BroadcastShape(a.shape, b.shape), LAMBDA shape :
        Arr(shape, a.den * b.den,
            [k \in 1..Prod(shape) |->
                Let(Unravel(k - 1, shape), LAMBDA u :
                    CMul(a.data[BroadcastIndex(u, a.shape) + 1],
                         b.data[BroadcastIndex(u, b.shape) + 1]))]))

\* An index tuple c is a sequence with one slice per leading axis: a slice is
\* <<start, stop>>, and slice(None) is SliceAll.  Python clips a slice to the axis.
SliceStart(sl, len) == IF sl = SliceAll THEN 0 ELSE IF sl[1] < len THEN sl[1] ELSE len

SliceStop(sl, len) == IF sl = SliceAll THEN len ELSE IF sl[2] < len THEN sl[2] ELSE len

SliceLen(sl, len) ==
    IF SliceStop(sl, len) > SliceStart(sl, len)
    THEN SliceStop(sl, len) - SliceStart(sl, len) ELSE 0

\* shape of a[c], for Len(c) <= a.ndim
SelShape(shape, c) ==
    [a \in 1..Len(shape) |-> IF a <= Len(c) THEN SliceLen(c[a], shape[a]) ELSE shape[a]]

\* flat index in the array of entry u of the selection a[c]
SelIndex(u, shape, c) ==
    Ravel([a \in 1..Len(shape) |->
              IF a <= Len(c) THEN u[a] + SliceStart(c[a], shape[a]) ELSE u[a]], shape)

\* a[c]
GetItem(a, c) ==
    Let(Tuple(SelShape(a.shape, c)), LAMBDA sel :
        Arr(sel, a.den,
            [k \in 1..Prod(sel) |->
                Let(Unravel(k - 1, sel), LAMBDA u : a.data[SelIndex(u, a.shape, c) + 1])]))

\* numpy drops the leading axes of length 1 of the value of an assignment
RECURSIVE StripOnes(_)
StripOnes(s) == IF Len(s) > 0 /\ Head(s) = 1 THEN StripOnes(Tail(s)) ELSE s

\* whether a[c] = v is a legal assignment (else numpy raises ValueError)
CanSetItem(shape, c, vshape) ==
    LET sel == SelShape(shape, c)
        vs  == StripOnes(vshape)
    IN  Len(vs) <= Len(sel) /\ CanBroadcast(vs, sel) /\ BroadcastShape(vs, sel) = sel

\* a[c] = v: the selected samples become those of v (broadcast), the others stay
SetItem(a, c, v) ==
    LET vs == StripOnes(v.shape)
        inside(u) == \A x \in 1..Len(c) :
                        /\ u[x] >= SliceStart(c[x], a.shape[x])
                        /\ u[x] <  SliceStop(c[x], a.shape[x])
        rel(u) == Tuple([x \in 1..Len(a.shape) |->
                      IF x <= Len(c) THEN u[x] - SliceStart(c[x], a.shape[x]) ELSE u[x]])
    IN  Arr(a.shape, a.den * v.den,
            [k \in 1..Prod(a.shape) |->
                Let(Unravel(k - 1, a.shape), LAMBDA u :
                    IF inside(u)
                    THEN Let(rel(u), LAMBDA r :
                             CScale(v.data[BroadcastIndex(r, vs) + 1], a.den))
                    ELSE CScale(a.data[k], v.den))])

\* ------------------------------------------------------------------------
\* The FFT primitive (hcipy._math.fft) and numpy.fft.ifftshift
\* ------------------------------------------------------------------------

\* quarter turns of the twiddle factor between output index uk and input
\* index uj of a transform over axes of lengths tshape (each 1, 2 or 4)
RECURSIVE TwExp(_, _, _, _)
TwExp(uk, uj, tshape, a) ==
    IF a > Len(tshape) THEN 0
    ELSE uk[a] * uj[a] * (4 \div tshape[a]) + TwExp(uk, uj, tshape, a + 1)

\* the transform of a over its last n axes (a.ndim >= n); the inverse divides
\* by the number of transformed samples
Twiddles(tshape) ==
    Let(Tuple([j \in 1..Prod(tshape) |-> Unravel(j - 1, tshape)]), LAMBDA ux :
        Tuple([kk \in 1..Len(ux) |-> Tuple([jj \in 1..Len(ux) |->
            TwExp(ux[kk], ux[jj], tshape, 1) % 4])]))

Transform(a, n, inverse) ==
    Let(Twiddles(TakeLast(a.shape, n)), LAMBDA tw :
        LET G == Len(tw)
            term(lead, kk, j) ==
                Rot(a.data[lead * G + j], IF inverse THEN tw[kk][j] ELSE 4 - tw[kk][j])
        IN  Arr(a.shape, IF inverse THEN a.den * G ELSE a.den,
                [k \in 1..Len(a.data) |->
                    Let(Tuple([j \in 1..G |-> term((k - 1) \div G, ((k - 1) % G) + 1, j)]),
                        LAMBDA terms : CSum(terms, G))]))

fftn(a, n) == Transform(a, n, FALSE)

ifftn(a, n) == Transform(a, n, TRUE)

\* numpy.fft.ifftshift over the last n axes: out[i] = in[(i + len // 2) % len]
ifftshift(a, n) ==
    LET m == Len(a.shape)
        src(u) == [x \in 1..m |->
                      IF x > m - n THEN (u[x] + a.shape[x] \div 2) % a.shape[x] ELSE u[x]]
    IN  Arr(a.shape, a.den,
            [k \in 1..Len(a.data) |->
                Let(Unravel(k - 1, a.shape), LAMBDA u : a.data[Ravel(src(u), a.shape) + 1])])

\* ------------------------------------------------------------------------
\* Grids and Fields (hcipy.field)
\* ------------------------------------------------------------------------

VARIABLES
    input_grid,          \* FourierFilter.input_grid
    internal_grid,       \* FourierFilter.internal_grid
    cutout,              \* FourierFilter.cutout: None or [slices: one <<start, stop>> per grid axis]
    transfer_function,   \* FourierFilter.transfer_function, as given to the constructor
    _transfer_function,  \* FourierFilter._transfer_function: None or [dtype, arr]
    internal_array,      \* FourierFilter.internal_array: None or [dtype, arr]
    call,                \* the last forward/backward call of the filter and its outcome
    depth,               \* how many calls in a row took the previous result as input
    _input_grid,         \* FourierShear._input_grid
    _shear_dim,          \* FourierShear._shear_dim
    _shear,              \* FourierShear._shear
    _filter,             \* FourierShear._filter
    shear_call,          \* the last constructor, setter or forward/backward call of the shear
    element_call         \* the last call element(wavefront) of an OpticalElement and its outcome

filter_vars == <<input_grid, internal_grid, cutout, transfer_function,
                 _transfer_function, internal_array, call, depth>>

shear_vars == <<_input_grid, _shear_dim, _shear, _filter, shear_call>>

vars == <<input_grid, internal_grid, cutout, transfer_function, _transfer_function,
          internal_array, call, depth, _input_grid, _shear_dim, _shear, _filter, shear_call,
          element_call>>

Grid(shape, is_regular) == [shape |-> shape, is_regular |-> is_regular]

\* Field(arr, grid): arr holds the samples flat, the grid axis last
Field(arr, grid, dtype) == [grid |-> grid, dtype |-> dtype, arr |-> arr]

Raised(error, line) == [error |-> error, line |-> line]

IsField(r) == "arr" \in DOMAIN r

IsRaised(r) == "error" \in DOMAIN r

tensor_shape(field) == DropLast(field.arr.shape, 1)

tensor_order(field) == Len(field.arr.shape) - 1

\* Field.shaped reshapes to tensor_shape + grid.shape, which numpy refuses when
\* the field does not have one sample per grid point
CanShape(field) == field.arr.shape[Len(field.arr.shape)] = Prod(field.grid.shape)

shaped(field) == Reshape(field.arr, tensor_shape(field) \o field.grid.shape)

\* a.reshape(lead + (-1,))
CanReshapeInfer(a, lead) == Prod(lead) > 0 /\ Size(a) % Prod(lead) = 0

ReshapeInfer(a, lead) == Reshape(a, lead \o <<Size(a) \div Prod(lead)>>)

\* Grid.zeros(tensor_shape, dtype).shaped
GridZeros(grid, tshape, dtype) == [dtype |-> dtype, arr |-> Zeros(tshape \o grid.shape)]

\* field_conjugate_transpose of a matrix field of flat shape <<r, c, npts>>
field_conjugate_transpose(a) ==
    LET r == a.shape[1]
        c == a.shape[2]
        g == a.shape[3]
        t == <<c, r, g>>
    IN  Arr(t, a.den,
            [k \in 1..Len(a.data) |->
                Let(Unravel(k - 1, t), LAMBDA u :
                    CConj(a.data[Ravel(<<u[2], u[1], u[3]>>, a.shape) + 1]))])

\* field_dot of a matrix field <<r, c, npts>> and a vector field <<c, npts>>
CanFieldDot(ashape, bshape) ==
    Len(ashape) = 3 /\ Len(bshape) = 2 /\ ashape[2] = bshape[1] /\ ashape[3] = bshape[2]

field_dot(a, b) ==
    LET r == a.shape[1]
        c == a.shape[2]
        g == a.shape[3]
    IN  Arr(<<r, g>>, a.den * b.den,
            [k \in 1..(r * g) |->
                Let(Unravel(k - 1, <<r, g>>), LAMBDA u :
                    CSum([j \in 1..c |->
                             CMul(a.data[Ravel(<<u[1], j - 1, u[2]>>, a.shape) + 1],
                                  b.data[Ravel(<<j - 1, u[2]>>, b.shape) + 1])], c))])

\* ------------------------------------------------------------------------
\* FastFourierTransform(input_grid, q): the padded grid and the cutout
\* ------------------------------------------------------------------------

fft_output_grid(grid, q) == Grid([a \in 1..Len(grid.shape) |-> q * grid.shape[a]], TRUE)

fft_cutout_input(grid, q) ==
    IF q = 1 THEN None
    ELSE [slices |-> [a \in 1..Len(grid.shape) |->
             LET start == (q * grid.shape[a]) \div 2 - grid.shape[a] \div 2
             IN  <<start, start + grid.shape[a]>>]]

\* ------------------------------------------------------------------------
\* FourierFilter
\* ------------------------------------------------------------------------

\* The transfer functions the filter is built with: a Field over the internal
\* grid, or a generator of one (callable).  kind is its tensor form, s its
\* scalar profile over the (centred) frequency grid.
ScalarSample(s, k) ==
    CASE s = "ones" -> <<1, 0>>
      [] s = "two"  -> <<2, 0>>
      [] OTHER      -> Rot(<<1, 0>>, k)

Matrix2(kind, r, c) ==
    CASE kind = "diag" -> IF r = c THEN <<1, 0>> ELSE CZero
      [] kind = "herm" -> IF r = c THEN <<1, 0>> ELSE IF r < c THEN <<0, 1>> ELSE <<0, -1>>
      [] OTHER         -> IF r = c THEN CZero ELSE <<0, 1>>

\* the Field a transfer function is (or returns) on a grid
TransferField(tf, grid) ==
    LET g == Prod(grid.shape)
    IN  IF tf.kind = "scalar"
        THEN Field(Arr(<<g>>, 1, [k \in 1..g |-> ScalarSample(tf.s, k - 1)]), grid, "complex128")
        ELSE Field(Arr(<<2, 2, g>>, 1,
                       [k \in 1..(4 * g) |->
                           Let(Unravel(k - 1, <<2, 2, g>>), LAMBDA u :
                               CMul(Matrix2(tf.kind, u[1], u[2]), ScalarSample(tf.s, u[3])))]),
                   grid, "complex128")

\* (mutant: the cache is never invalidated)
recompute_transfer_function_once(cached, field) == IsNone(cached)

\* line 42: whether the cached transfer function is computed anew
recompute_transfer_function(cached, field) == IsNone(cached) \/ cached.dtype # field.dtype

\* lines 43-49: the transfer function on the internal grid, ifftshift-ed over the
\* grid axes and cast to the field's dtype
compute_transfer_function(tf, field) ==
    LET f == IF tf.callable
             THEN TransferField(tf, internal_grid)   \* the generator, on the internal grid
             ELSE TransferField(tf, internal_grid)   \* a copy of the Field the caller built
    IN  Let(shaped(f), LAMBDA sh :
        Let(ifftshift(sh, Len(input_grid.shape)), LAMBDA shifted :
            [dtype |-> field.dtype, arr |-> AstypeArr(shifted, field.dtype)]))

\* lines 51-54
recompute_internal_array(array, field) ==
    \/ IsNone(array)
    \/ Len(array.arr.shape) # Len(field.grid.shape) + tensor_order(field)
    \/ array.dtype # field.dtype
    \/ Take(array.arr.shape, tensor_order(field)) # tensor_shape(field)

\* FourierFilter._compute_functions(field): the new _transfer_function and
\* internal_array, and whether each was computed anew
_compute_functions(field) ==
    LET retf == recompute_transfer_function(_transfer_function, field)
        rearr == recompute_internal_array(internal_array, field)
    IN  [tf        |-> IF retf THEN compute_transfer_function(transfer_function, field)
                       ELSE _transfer_function,
         array     |-> IF rearr THEN GridZeros(internal_grid, tensor_shape(field), field.dtype)
                       ELSE internal_array,
         evaluated |-> retf,
         allocated |-> rearr]

\* (mutant: the forward FFT may always overwrite f)
overwrite_x_always(cut) == TRUE

\* line 115: the forward FFT may overwrite f only when f is the scratch buffer
overwrite_x(cut) == ~IsNone(cut)

\* line 120: the cached transfer function is a matrix field
is_matrix_field(tf) == Len(tf.arr.shape) - Len(internal_grid.shape) = 2

\* (mutant: the tensor axes are not skipped)
cutout_index_grid_only(field) == cutout.slices

\* line 111
cutout_index(field) == [a \in 1..tensor_order(field) |-> SliceAll] \o cutout.slices

\* (mutant: the scratch buffer is not cleared before the field is copied in)
zero_fill_skipped(array) == array

\* line 110: f[:] = 0 on the whole scratch buffer
zero_fill(array) == [dtype |-> array.dtype, arr |-> Zeros(array.arr.shape)]

\* lines 106-112: f, and the scratch buffer after it
load_input(array, field) ==
    IF IsNone(cutout)
    THEN IF CanShape(field)
         THEN [f |-> shaped(field), array |-> array]
         ELSE [raised |-> Raised("ValueError", 107), array |-> array]
    ELSE Let(zero_fill(array), LAMBDA zeroed :
         Let(cutout_index(field), LAMBDA c :
             IF ~CanShape(field)
             THEN [raised |-> Raised("ValueError", 112), array |-> zeroed]
             ELSE IF Len(c) > Len(zeroed.arr.shape)
             THEN [raised |-> Raised("IndexError", 112), array |-> zeroed]
             ELSE IF ~CanSetItem(zeroed.arr.shape, c, shaped(field).shape)
             THEN [raised |-> Raised("ValueError", 112), array |-> zeroed]
             ELSE Let(shaped(field), LAMBDA sh :
                  Let(SetItem(zeroed.arr, c, sh), LAMBDA filled :
                      [f |-> filled, array |-> [dtype |-> array.dtype, arr |-> filled]]))))

\* (mutant: the adjoint uses the matrix itself)
apply_matrix_plain(f, t, adjoint) == field_dot(t, f)

\* lines 122-131: the matrix field tf (of shape s2) applied to f (of shape s1)
apply_matrix(f, t, adjoint) ==
    IF adjoint
    THEN Let(field_conjugate_transpose(t), LAMBDA th : field_dot(th, f))
    ELSE field_dot(t, f)

\* (mutant: the adjoint uses the transfer function itself)
scalar_transfer_plain(tf, adjoint) == tf.arr

\* lines 134-137: the scalar transfer function, conjugated under adjoint
scalar_transfer(tf, adjoint) == IF adjoint THEN ConjArr(tf.arr) ELSE tf.arr

\* lines 120-140: the transfer function applied to the spectrum f
apply_transfer_function(f, tf, adjoint) ==
    IF is_matrix_field(tf)
    THEN LET n  == Len(internal_grid.shape)
             g  == Prod(internal_grid.shape)
             s1 == DropLast(f.shape, n) \o <<g>>
             s2 == DropLast(tf.arr.shape, n) \o <<g>>
         IN  IF Prod(s1) # Size(f)
             THEN [raised |-> Raised("ValueError", 123)]
             ELSE IF ~CanFieldDot(s2, s1)
             THEN [raised |-> Raised("ValueError", 131)]
             ELSE Let(Reshape(tf.arr, s2), LAMBDA t :
                  Let(Reshape(f, s1), LAMBDA fv :
                  Let(apply_matrix(fv, t, adjoint), LAMBDA d :
                      [f |-> Reshape(d, DropLast(d.shape, 1) \o internal_grid.shape)])))
    ELSE IF ~CanBroadcast(f.shape, tf.arr.shape)
         THEN [raised |-> Raised("ValueError", 140)]
         ELSE Let(scalar_transfer(tf, adjoint), LAMBDA t : [f |-> MulArr(f, t)])

\* lines 147-153: the crop to the cutout and the result Field
crop_result(f, field) ==
    LET n == Len(internal_grid.shape)
        s == DropLast(f.shape, n)
    IN  IF IsNone(cutout)
        THEN Let(ReshapeInfer(f, s), LAMBDA res :
                 Field(Normal(res), input_grid, ComplexOf(field.dtype)))
        ELSE Let(cutout_index(field), LAMBDA c :
                 IF Len(c) > Len(f.shape)
                 THEN Raised("IndexError", 151)
                 ELSE Let(GetItem(f, c), LAMBDA cut :
                          IF ~CanReshapeInfer(cut, s)
                          THEN Raised("ValueError", 151)
                          ELSE Let(ReshapeInfer(cut, s), LAMBDA res :
                                   Field(Normal(res), input_grid, ComplexOf(field.dtype)))))

\* What an FFT that may overwrite its input leaves in the input's storage: the
\* samples as they were, or the transform's output in the storage's dtype.
FftLeaves == {"input", "output"}

after_fft(storage, dtype, spectrum, overwrite, left) ==
    IF overwrite /\ left = "output"
    THEN Let(AstypeArr(spectrum, dtype), LAMBDA cast :
         Let(Reshape(cast, storage.shape), LAMBDA r : Normal(r)))
    ELSE storage

\* lines 118-153, from f on
transform_input(cf, in, field, adjoint, left) ==
    LET n  == Len(input_grid.shape)
        ow == overwrite_x(cutout)
        out(result, array, after) ==
            [result |-> result, tf |-> cf.tf, array |-> array, field_after |-> after,
             evaluated |-> cf.evaluated, allocated |-> cf.allocated]
    IN  IF "raised" \in DOMAIN in
        THEN out(in.raised, in.array, field)
        ELSE IF Len(in.f.shape) < n
        THEN out(Raised("ValueError", 118), in.array, field)
        ELSE Let(fftn(in.f, n), LAMBDA spectrum :
             Let(IF IsNone(cutout) THEN in.array
                 ELSE [dtype |-> in.array.dtype,
                       arr |-> after_fft(in.array.arr, in.array.dtype, spectrum, ow, left)],
                 LAMBDA array :
             Let(IF IsNone(cutout)
                 THEN Field(after_fft(field.arr, field.dtype, spectrum, ow, left),
                            field.grid, field.dtype)
                 ELSE field,
                 LAMBDA after :
             Let(apply_transfer_function(spectrum, cf.tf, adjoint), LAMBDA prod :
                 IF "raised" \in DOMAIN prod
                 THEN out(prod.raised, array, after)
                 ELSE Let(ifftn(prod.f, n), LAMBDA g :
                          out(crop_result(g, field), array, after))))))

\* lines 106-153 of FourierFilter._operation, after _compute_functions returned
\* cf: the result (a Field, or what was raised), the instance's attributes after
\* the call and the caller's field after the call
run_operation(cf, field, adjoint, left) ==
    Let(load_input(cf.array, field), LAMBDA in :
        transform_input(cf, in, field, adjoint, left))

\* FourierFilter._operation(field, adjoint)
_operation(field, adjoint, left) ==
    Let(_compute_functions(field), LAMBDA cf : run_operation(cf, field, adjoint, left))

\* ------------------------------------------------------------------------
\* The filters that are built and the fields they are called with
\* ------------------------------------------------------------------------

MaxChain == 1

FilterGrids == {Grid(<<2>>, TRUE), Grid(<<2, 2>>, TRUE)}

Paddings == {1, 2}

TransferFunctions ==
    {[callable |-> FALSE, kind |-> "scalar", s |-> "ones"],
     [callable |-> TRUE,  kind |-> "scalar", s |-> "two"],
     [callable |-> TRUE,  kind |-> "scalar", s |-> "phase"],
     [callable |-> FALSE, kind |-> "diag",   s |-> "ones"],
     [callable |-> TRUE,  kind |-> "diag",   s |-> "two"],
     [callable |-> FALSE, kind |-> "diag",   s |-> "phase"],
     [callable |-> FALSE, kind |-> "herm",   s |-> "ones"],
     [callable |-> TRUE,  kind |-> "anti",   s |-> "phase"]}

Dtypes == {"float64", "complex128"}

\* a field with samples 1, 2, 3, ... (and imaginary parts 0, 1, 0, 1, ... when complex)
MakeField(grid, tshape, dtype) ==
    LET shape == tshape \o <<Prod(grid.shape)>>
    IN  Field(Arr(shape, 1, [k \in 1..Prod(shape) |-> Cast(<<k, (k - 1) % 2>>, dtype)]),
              grid, dtype)

InputFields ==
    {MakeField(g, t, d) : g \in FilterGrids, t \in {<<>>, <<2>>}, d \in Dtypes}
    \cup {MakeField(Grid(<<2>>, TRUE), <<2, 2>>, "complex128")}

\* FourierFilter(input_grid, transfer_function, q), with an internal grid of at
\* most four samples: the 2 x 2 grid is not padded
Constructions ==
    {c \in FilterGrids \X Paddings \X TransferFunctions : Prod(c[1].shape) * c[2] <= 4}

NoCall == [op |-> "none"]

\* no filter and no shear built yet
Init ==
    /\ input_grid = None /\ internal_grid = None /\ cutout = None
    /\ transfer_function = None /\ _transfer_function = None /\ internal_array = None
    /\ call = NoCall
    /\ depth = 0
    /\ _input_grid = None /\ _shear_dim = None /\ _shear = None /\ _filter = None
    /\ shear_call = NoCall
    /\ element_call = NoCall

\* (a constructor that raised ends the run, and so does the call of an optical
\* element: the three classes share no state)
NothingBuilt ==
    /\ IsNone(input_grid) /\ IsNone(_input_grid)
    /\ shear_call = NoCall /\ element_call = NoCall

\* FourierFilter.__init__(input_grid, transfer_function, q), lines 28-39
NewFourierFilter ==
    /\ NothingBuilt
    /\ \E c \in Constructions :
          /\ input_grid' = c[1]
          /\ internal_grid' = fft_output_grid(c[1], c[2])
          /\ cutout' = fft_cutout_input(c[1], c[2])
          /\ transfer_function' = c[3]
    /\ _transfer_function' = None
    /\ internal_array' = None
    /\ UNCHANGED <<call, depth, shear_vars, element_call>>

\* the scratch buffer holds a nonzero sample outside the cutout
PaddingWritten(array) ==
    /\ ~IsNone(array)
    /\ ~IsNone(cutout)
    /\ LET lead == Len(array.arr.shape) - Len(cutout.slices)
           c == [a \in 1..lead |-> SliceAll] \o cutout.slices
       IN  Normal(SetItem(Zeros(array.arr.shape), c, GetItem(array.arr, c)))
               # Normal(array.arr)

\* one call of forward (adjoint FALSE) or backward (adjoint TRUE)
Call(field, adjoint, left, origin) ==
    \E r \in {_operation(field, adjoint, left)} :
        /\ _transfer_function' = r.tf
        /\ internal_array' = r.array
        /\ call' = [op |-> IF adjoint THEN "backward" ELSE "forward",
                    field |-> field, adjoint |-> adjoint, result |-> r.result,
                    field_after |-> r.field_after, evaluated |-> r.evaluated,
                    allocated |-> r.allocated, origin |-> origin,
                    stale |-> PaddingWritten(internal_array)]
        /\ UNCHANGED <<input_grid, internal_grid, cutout, transfer_function, shear_vars,
                       element_call>>

Lefts == IF overwrite_x(cutout) THEN FftLeaves ELSE {"input"}

\* filter.forward(field) / filter.backward(field) on a field of the caller's
FilterCall ==
    /\ ~IsNone(input_grid)
    /\ \E field \in InputFields, adjoint \in BOOLEAN, left \in Lefts :
          Call(field, adjoint, left, None)
    /\ depth' = 0

\* filter.forward(g) / filter.backward(g) on the Field g the previous call returned
FilterCallOnResult ==
    /\ ~IsNone(input_grid)
    /\ depth < MaxChain
    /\ call.op # "none"
    /\ IsField(call.result)
    /\ \E adjoint \in BOOLEAN, left \in Lefts :
          Call(call.result, adjoint, left, [field |-> call.field, adjoint |-> call.adjoint])
    /\ depth' = depth + 1

\* ------------------------------------------------------------------------
\* FourierShear
\* ------------------------------------------------------------------------

\* Grid.separated_coords[dim] of a regular grid of unit spacing centred on the
\* origin, in half units: dimension 0 is the last axis of the shaped field
AxisLen(grid, dim) == grid.shape[Len(grid.shape) - dim]

separated_coords2(grid, dim) == [j \in 1..AxisLen(grid, dim) |-> 2 * (j - 1) - AxisLen(grid, dim) + 1]

\* line 209: np.fft.ifftshift(make_fft_grid(grid).separated_coords[dim]), in units
\* of 2 pi / (length of the axis): 0, 1, ..., -2, -1
fft_frequencies(grid, dim) ==
    LET len == AxisLen(grid, dim)
    IN  [j \in 1..len |-> IF j - 1 < (len + 1) \div 2 THEN j - 1 ELSE j - 1 - len]

\* line 200
fourier_dim(shear_dim) == IF shear_dim = 0 THEN 1 ELSE 0

\* line 213: exp(-1j * shear * outer(y, fx)).  With y in half units and fx in
\* units of 2 pi / len the phase is -shear * y * fx * pi / len, which is a whole
\* number of quarter turns for the shears and grids of the model.
phase_ramp(shear, y, fx) ==
    Arr(<<Len(y), Len(fx)>>, 1,
        [k \in 1..(Len(y) * Len(fx)) |->
            Let(Unravel(k - 1, <<Len(y), Len(fx)>>), LAMBDA u :
                Rot(<<1, 0>>, 0 - ((2 * shear * y[u[1] + 1] * fx[u[2] + 1]) \div Len(fx))))])

\* ndarray.T of a matrix
Transpose(a) ==
    Arr(<<a.shape[2], a.shape[1]>>, a.den,
        [k \in 1..Len(a.data) |->
            Let(Unravel(k - 1, <<a.shape[2], a.shape[1]>>), LAMBDA u :
                a.data[Ravel(<<u[2], u[1]>>, a.shape) + 1])])

\* (mutant: the filter is not transposed for a shear along axis 1)
shear_filter_untransposed(grid, shear_dim, shear) ==
    Let(Tuple(fft_frequencies(grid, shear_dim)), LAMBDA fx :
    Let(Tuple(separated_coords2(grid, fourier_dim(shear_dim))), LAMBDA y :
        phase_ramp(shear, y, fx)))

\* lines 208-219: the filter of a shear
shear_filter(grid, shear_dim, shear) ==
    Let(Tuple(fft_frequencies(grid, shear_dim)), LAMBDA fx :
    Let(Tuple(separated_coords2(grid, fourier_dim(shear_dim))), LAMBDA y :
    Let(phase_ramp(shear, y, fx), LAMBDA ramp :
        IF shear_dim = 1 THEN Transpose(ramp) ELSE ramp)))

\* (mutant: the regularity of the grid is not checked)
grid_refused_ndim(grid) == Len(grid.shape) # 2

\* line 183
grid_refused(grid) == ~grid.is_regular \/ Len(grid.shape) # 2

ShearGrids ==
    {Grid(shape, regular) :
        shape \in {<<2>>, <<2, 2>>, <<2, 4>>, <<4, 2>>, <<2, 2, 2>>}, regular \in BOOLEAN}

Shears == {-2, 0, 2, 4}

ShearDims == {0, 1}

ShearFields ==
    {MakeField(g, <<>>, d) : g \in {Grid(<<2, 2>>, TRUE), Grid(<<2, 4>>, TRUE)}, d \in Dtypes}

\* the shear setter, lines 207-221
set_shear(shear) ==
    /\ _filter' = shear_filter(_input_grid', _shear_dim', shear)
    /\ _shear' = shear

\* FourierShear.__init__(input_grid, shear, shear_dim), lines 182-188
NewFourierShear ==
    /\ NothingBuilt
    /\ \E grid \in ShearGrids, shear \in Shears, shear_dim \in ShearDims :
          IF grid_refused(grid)
          THEN /\ shear_call' = [op |-> "__init__", grid |-> grid, shear |-> shear,
                                 shear_dim |-> shear_dim, result |-> Raised("ValueError", 184)]
               /\ UNCHANGED <<_input_grid, _shear_dim, _shear, _filter>>
          ELSE /\ _input_grid' = grid
               /\ _shear_dim' = shear_dim
               /\ set_shear(shear)
               /\ shear_call' = [op |-> "__init__", grid |-> grid, shear |-> shear,
                                 shear_dim |-> shear_dim, result |-> None]
    /\ UNCHANGED <<filter_vars, element_call>>

\* shear.shear = value
SetShear ==
    /\ ~IsNone(_input_grid)
    /\ \E shear \in Shears :
          /\ UNCHANGED <<_input_grid, _shear_dim>>
          /\ set_shear(shear)
          /\ shear_call' = [op |-> "shear", shear |-> shear, result |-> None]
    /\ UNCHANGED <<filter_vars, element_call>>

\* FourierShear._operation(field, adjoint), lines 253-271: the name _use_mkl of
\* line 254 is bound nowhere in the module, so that the call raises NameError
\* before it reads the field
shear_operation(field, adjoint) ==
    [result |-> Raised("NameError", 254), field_after |-> field]

\* shear.forward(field) / shear.backward(field)
ShearCall ==
    /\ ~IsNone(_input_grid)
    /\ \E field \in ShearFields, adjoint \in BOOLEAN :
          \E r \in {shear_operation(field, adjoint)} :
             shear_call' = [op |-> IF adjoint THEN "backward" ELSE "forward",
                            field |-> field, adjoint |-> adjoint,
                            result |-> r.result, field_after |-> r.field_after]
    /\ UNCHANGED <<_input_grid, _shear_dim, _shear, _filter, filter_vars, element_call>>

\* ------------------------------------------------------------------------
\* OpticalElement
\* ------------------------------------------------------------------------

\* the outcome of a Python call: a returned value, or Raised(error, line)
Returned(value) == [value |-> value]

IsReturned(r) == "value" \in DOMAIN r

\* the values of the model: wavefronts, and an exception instance
Wavefronts == {[wavefront |-> n] : n \in 1..2}

ExceptionValue(error) == [exception |-> error]

IsException(v) == "exception" \in DOMAIN v

\* The elements: the base class, and subclasses that override forward, which
\* returns its wavefront, returns another wavefront, returns an exception
\* instance, or raises.
BaseElement == [class |-> "OpticalElement"]

Subclasses ==
    {[class |-> "Subclass", forward |-> f] :
        f \in {"same", "other", "exception", "raises"}}

Elements == {BaseElement} \cup Subclasses

\* element.forward(wavefront): line 6 for the base class, the override otherwise
forward(element, wavefront) ==
    IF element = BaseElement
    THEN Raised("NotImplementedError", 6)
    ELSE CASE element.forward = "same"      -> Returned(wavefront)
           [] element.forward = "other"     -> Returned([wavefront |-> 3 - wavefront.wavefront])
           [] element.forward = "exception" -> Returned(ExceptionValue("RuntimeError"))
           [] OTHER                         -> Raised("ValueError", 5)

\* the statement `raise value`: an exception instance is raised, anything else is
\* a TypeError (exceptions must derive from BaseException)
raise(value, line) ==
    IF IsException(value) THEN Raised(value.exception, line) ELSE Raised("TypeError", line)

\* OpticalElement.__call__(wavefront), line 3: raise self.forward(wavefront)
__call__(element, wavefront) ==
    Let(forward(element, wavefront), LAMBDA r :
        IF IsRaised(r) THEN r ELSE raise(r.value, 3))

\* element(wavefront)
ElementCall ==
    /\ NothingBuilt
    /\ \E element \in Elements, wavefront \in Wavefronts :
          element_call' = [op |-> "__call__", element |-> element, wavefront |-> wavefront,
                           forward |-> forward(element, wavefront),
                           result |-> __call__(element, wavefront)]
    /\ UNCHANGED <<filter_vars, shear_vars>>

Next ==
    \/ NewFourierFilter
    \/ FilterCall
    \/ FilterCallOnResult
    \/ NewFourierShear
    \/ SetShear
    \/ ShearCall
    \/ ElementCall

Spec == Init /\ [][Next]_vars

\* ------------------------------------------------------------------------
\* Properties
\* ------------------------------------------------------------------------

FilterCalled == call.op # "none"

ShearCalled == shear_call.op \in {"forward", "backward"}

\* the field is a well-formed field on the filter's input grid
OnInputGrid(field) == field.grid = input_grid /\ CanShape(field)

\* C1: after every forward/backward call of the filter and of the shear, the
\* samples of the caller's input field are what they were before the call.
C1_InputFieldUntouched ==
    /\ FilterCalled => call.field_after = call.field
    /\ ShearCalled => shear_call.field_after = shear_call.field

\* an unpadded call, in which the forward FFT reads the caller's storage, returned
C1_Witness == FilterCalled /\ IsNone(cutout) /\ IsField(call.result)

\* C2: the cached transfer function is computed anew by a call exactly when it is
\* absent or its dtype is not the field's; after the call its dtype is the
\* field's; a call that does not compute it leaves it as it was; and a call
\* with the dtype of the call before it does not compute it.
C2_CacheStep ==
    ~IsNone(input_grid) =>
        /\ call'.evaluated <=>
              (IsNone(_transfer_function) \/ _transfer_function.dtype # call'.field.dtype)
        /\ _transfer_function'.dtype = call'.field.dtype
        /\ ~call'.evaluated => _transfer_function' = _transfer_function
        /\ (FilterCalled /\ call.field.dtype = call'.field.dtype) => ~call'.evaluated

C2_CacheFollowsDtype == [][C2_CacheStep]_vars

\* a call reused the transfer function an earlier call computed
C2_Witness == FilterCalled /\ ~call.evaluated /\ ~IsNone(_transfer_function)

\* C3 (as stated): a call replaces the scratch buffer exactly when it is absent,
\* its number of axes is not the field's grid ndim + tensor order, its dtype is
\* not the field's or its leading axes are not the field's tensor shape; it keeps
\* the buffer otherwise; and after the check the buffer has the field's dtype and
\* the field's tensor shape over the padded internal grid.
C3_BufferStep ==
    ~IsNone(input_grid) =>
        LET field == call'.field
            order == Len(field.arr.shape) - 1
            tshape == SubSeq(field.arr.shape, 1, order)
        IN  /\ call'.allocated <=>
                  \/ IsNone(internal_array)
                  \/ Len(internal_array.arr.shape) # Len(field.grid.shape) + order
                  \/ internal_array.dtype # field.dtype
                  \/ SubSeq(internal_array.arr.shape, 1, order) # tshape
            /\ ~call'.allocated =>
                  /\ internal_array'.arr.shape = internal_array.arr.shape
                  /\ internal_array'.dtype = internal_array.dtype
            /\ internal_array'.dtype = field.dtype
            /\ internal_array'.arr.shape = tshape \o internal_grid.shape

C3_BufferAsStated == [][C3_BufferStep]_vars

\* the same statement for the calls whose field lies on the filter's input grid
C3_BufferOnInputGrid ==
    [][(~IsNone(input_grid) /\ call'.field.grid = input_grid) => C3_BufferStep]_vars

\* C4 (as stated): with a Hermitian matrix (or real scalar) transfer function,
\* backward(forward(f)) = f and forward(backward(f)) = f.
IsHermitianTF == transfer_function.kind = "herm" \/ transfer_function.s \in {"ones", "two"}

RoundTrip ==
    /\ FilterCalled
    /\ ~IsNone(call.origin)
    /\ call.origin.adjoint # call.adjoint
    /\ OnInputGrid(call.origin.field)

C4_RoundTripHermitian ==
    (RoundTrip /\ IsHermitianTF) =>
        IsField(call.result) /\ call.result.arr = call.origin.field.arr

\* the transfer function is unitary at every sample: of modulus one if scalar
IsUnitaryTF ==
    /\ transfer_function.s \in {"ones", "phase"}
    /\ transfer_function.kind \in {"scalar", "diag", "anti"}

IsRealTF == transfer_function.s \in {"ones", "two"} /\ transfer_function.kind \in {"scalar", "diag"}

\* C4 (amended): without padding, with a transfer function that is unitary at
\* every sample, and real as well when f has a real dtype, backward(forward(f)) = f
\* and forward(backward(f)) = f.
C4_RoundTripUnitary ==
    (/\ RoundTrip
     /\ IsNone(cutout)
     /\ IsUnitaryTF
     /\ IsComplexDtype(call.origin.field.dtype) \/ IsRealTF) =>
        IsField(call.result) /\ call.result.arr = call.origin.field.arr

\* a round trip through a unitary transfer function that is not the identity
C4_Witness ==
    /\ RoundTrip /\ IsNone(cutout) /\ IsUnitaryTF
    /\ transfer_function.s = "phase"
    /\ IsComplexDtype(call.origin.field.dtype)
    /\ IsField(call.result)

\* C5: with the scalar transfer function of all ones, forward returns a field on
\* the input grid with the tensor shape and the samples of its input, padded or
\* not.
C5_IdentityTransferFunction ==
    (/\ FilterCalled
     /\ call.op = "forward"
     /\ transfer_function.kind = "scalar" /\ transfer_function.s = "ones"
     /\ OnInputGrid(call.field)) =>
        /\ IsField(call.result)
        /\ call.result.grid = input_grid
        /\ call.result.arr = call.field.arr

\* the identity filter returned a vector field through the padded path
C5_Witness ==
    /\ FilterCalled /\ call.op = "forward"
    /\ transfer_function.kind = "scalar" /\ transfer_function.s = "ones"
    /\ OnInputGrid(call.field)
    /\ ~IsNone(cutout)
    /\ Len(call.field.arr.shape) = 2
    /\ IsField(call.result)

\* the result a newly built filter with the scalar transfer function s gives for
\* the last call, s being the profile of the matrix transfer function s * identity
ScalarTwinResult ==
    LET tf == [callable |-> transfer_function.callable, kind |-> "scalar",
               s |-> transfer_function.s]
        field == call.field
    IN  Let([tf |-> compute_transfer_function(tf, field),
             array |-> GridZeros(internal_grid, tensor_shape(field), field.dtype),
             evaluated |-> TRUE, allocated |-> TRUE],
            LAMBDA cf : run_operation(cf, field, call.adjoint, "input").result)

IsVectorField(field) == Len(field.arr.shape) = 2 /\ field.arr.shape[1] = 2

\* C6: for a vector field, forward and backward with the matrix transfer function
\* s * identity (dispatched to the per-sample matrix product, conjugate transpose
\* under adjoint) return what they return with the scalar transfer function s
\* (elementwise product, conjugate under adjoint).
C6_MatrixScalarConsistency ==
    (/\ FilterCalled
     /\ transfer_function.kind = "diag"
     /\ OnInputGrid(call.field)
     /\ IsVectorField(call.field)) =>
        /\ IsField(call.result)
        /\ call.result = ScalarTwinResult

\* backward with a matrix transfer function i^k * identity on a vector field
C6_Witness ==
    /\ FilterCalled
    /\ transfer_function.kind = "diag" /\ transfer_function.s = "phase"
    /\ OnInputGrid(call.field) /\ IsVectorField(call.field)
    /\ IsComplexDtype(call.field.dtype)
    /\ call.op = "backward"
    /\ IsField(call.result)

\* C7 (as stated): a call with a field whose grid has not the dimensionality of
\* the filter's grid raises, and returns no Field.
C7_GridMismatchRaises ==
    (FilterCalled /\ Len(call.field.grid.shape) # Len(input_grid.shape)) =>
        IsRaised(call.result)

\* C8 (as stated): forward and backward of a shear return a Field on the grid of
\* their input with as many samples.
C8_ShearReturnsField ==
    ShearCalled =>
        /\ IsField(shear_call.result)
        /\ shear_call.result.grid = shear_call.field.grid
        /\ Len(shear_call.result.arr.data) = Len(shear_call.field.arr.data)

\* C9: the constructor of a shear raises ValueError when the grid is not regular
\* or not 2-D, and then sets no attribute (no filter, no shear); otherwise it
\* returns and has stored the grid, the shear axis and the shear.
C9_ShearConstruction ==
    shear_call.op = "__init__" =>
        IF ~shear_call.grid.is_regular \/ Len(shear_call.grid.shape) # 2
        THEN /\ IsRaised(shear_call.result)
             /\ shear_call.result.error = "ValueError"
             /\ IsNone(_filter) /\ IsNone(_shear) /\ IsNone(_input_grid) /\ IsNone(_shear_dim)
        ELSE /\ IsNone(shear_call.result)
             /\ _input_grid = shear_call.grid
             /\ _shear_dim = shear_call.shear_dim
             /\ _shear = shear_call.shear
             /\ ~IsNone(_filter)

\* a regular grid that is not 2-D was refused
C9_Witness ==
    /\ shear_call.op = "__init__"
    /\ shear_call.grid.is_regular
    /\ IsRaised(shear_call.result)

\* exp(-i * shear * y * fx) for the coordinate of index j of n (in half units) and
\* the frequency of index k of m, in the order of the FFT output
ExpectedPhase(shear, j, n, k, m) ==
    Rot(<<1, 0>>, 0 - ((2 * shear * (2 * j - n + 1) * (IF 2 * k < m THEN k ELSE k - m)) \div m))

\* C10: after every step the filter is exp(-i * shear * outer(y, fx)) for the
\* stored shear (transposed for a shear along axis 1); an assignment to shear
\* stores the value and leaves the grid and the shear axis; forward and backward
\* leave the shear and the filter.
C10_ShearStep ==
    /\ ~IsNone(_input_grid') =>
          LET rows == _input_grid'.shape[1]
              cols == _input_grid'.shape[2]
          IN  /\ _filter'.shape = <<rows, cols>>
              /\ _filter'.den = 1
              /\ \A r \in 0..(rows - 1), c \in 0..(cols - 1) :
                    _filter'.data[r * cols + c + 1] =
                        IF _shear_dim' = 0
                        THEN ExpectedPhase(_shear', r, rows, c, cols)
                        ELSE ExpectedPhase(_shear', c, cols, r, rows)
    /\ shear_call'.op = "shear" =>
          /\ _shear' = shear_call'.shear
          /\ _input_grid' = _input_grid
          /\ _shear_dim' = _shear_dim
    /\ shear_call'.op \in {"forward", "backward"} =>
          /\ _shear' = _shear
          /\ _filter' = _filter
          /\ _input_grid' = _input_grid
          /\ _shear_dim' = _shear_dim

C10_FilterFollowsShear == [][C10_ShearStep]_vars

\* forward or backward was called on a shear of 2 along axis 1 of a 2 x 4 grid
C10_Witness ==
    /\ ShearCalled
    /\ _shear_dim = 1
    /\ _shear = 2
    /\ _input_grid.shape = <<2, 4>>

\* what a newly built filter with the same construction arguments returns for
\* the field and the adjoint flag of the last call: its transfer function is
\* computed and its scratch buffer allocated by that call
FreshResult ==
    LET field == call.field
    IN  Let([tf |-> compute_transfer_function(transfer_function, field),
             array |-> GridZeros(internal_grid, tensor_shape(field), field.dtype),
             evaluated |-> TRUE, allocated |-> TRUE],
            LAMBDA cf : run_operation(cf, field, call.adjoint, "input").result)

ElementCalled == element_call.op = "__call__"

\* C12 (as stated): for a subclass whose forward returns a value, element(wavefront)
\* returns that value; on the base class the call raises NotImplementedError.
C12_CallReturnsForward ==
    ElementCalled =>
        /\ IsReturned(element_call.forward) => element_call.result = element_call.forward
        /\ element_call.element = BaseElement =>
              /\ IsRaised(element_call.result)
              /\ element_call.result.error = "NotImplementedError"

\* what the call does: it never returns; it raises what forward raised, or the
\* value forward returned if that is an exception, or TypeError
C12_CallAlwaysRaises ==
    ElementCalled =>
        /\ IsRaised(element_call.result)
        /\ IsRaised(element_call.forward) => element_call.result = element_call.forward
        /\ (IsReturned(element_call.forward) /\ ~IsException(element_call.forward.value)) =>
              element_call.result = Raised("TypeError", 3)

====
